---- MODULE Spec2Model ----
(***************************************************************************)
(* Model of src/src/algorithm.ts: the Modified-Leitner flashcard functions *)
(* toBucketSets, getBucketRange, practice, update and computeProgress.     *)
(*                                                                         *)
(* A JavaScript Set is an object on a heap: heap[r] is the current content *)
(* of Set object r.  A JavaScript Map is a sequence of entries             *)
(* [bucket |-> key, ref |-> Set object] in insertion order.  Copying a Map *)
(* copies the entries, not the Set objects they refer to.                  *)
(***************************************************************************)
EXTENDS Integers, Sequences, FiniteSets

\* ---------------------------------------------------------------- bounds
NumCards == 2
MaxBucket == 6
MaxSteps == 2
MaxLen == 7
MaxDay == 64
MaxHist == 3

Cards == 1..NumCards
Difficulties == {"Wrong", "Hard", "Easy"}

VARIABLES heap, buckets, dense, call, steps

vars == <<heap, buckets, dense, call, steps>>

retiredBucket == 5

\* ------------------------------------------------------- JavaScript Map
MapKeys(m) == {m[i].bucket : i \in 1..Len(m)}

MapHas(m, k) == k \in MapKeys(m)

MapGet(m, k) == (CHOOSE e \in {m[i] : i \in 1..Len(m)} : e.bucket = k).ref

MapDeleteKeepsEntry(m, k) == m

MapDelete(m, k) == SelectSeq(m, LAMBDA e : e.bucket # k)

MapSet(m, k, r) ==
    IF MapHas(m, k)
    THEN [i \in 1..Len(m) |-> IF m[i].bucket = k THEN [bucket |-> k, ref |-> r] ELSE m[i]]
    ELSE Append(m, [bucket |-> k, ref |-> r])

Max(S) == CHOOSE x \in S : \A y \in S : y <= x

Min(S) == CHOOSE x \in S : \A y \in S : x <= y

\* The abstract value of a Map under a heap: bucket number -> set of cards.
Contents(m, h) == [k \in MapKeys(m) |-> h[MapGet(m, k)]]

\* --------------------------------------------------------------- update
\* Lines 95-102: index of the first entry, in iteration order, whose Set
\* has the card; 0 when the loop ends without finding one.
FindEntryDefaultsToFirst(m, h, card) ==
    LET hits == {i \in 1..Len(m) : card \in h[m[i].ref]}
    IN  IF hits = {} THEN (IF Len(m) > 0 THEN 1 ELSE 0) ELSE Min(hits)

FindEntry(m, h, card) ==
    LET hits == {i \in 1..Len(m) : card \in h[m[i].ref]}
    IN  IF hits = {} THEN 0 ELSE Min(hits)

newBucketOfNoFloor(currentBucket, difficulty) ==
    CASE difficulty = "Wrong" -> 0
      [] difficulty = "Easy"  -> IF currentBucket = 5 THEN currentBucket ELSE currentBucket + 1
      [] difficulty = "Hard"  -> currentBucket - 1

newBucketOfNoCeiling(currentBucket, difficulty) ==
    CASE difficulty = "Wrong" -> 0
      [] difficulty = "Easy"  -> currentBucket + 1
      [] difficulty = "Hard"  -> Max({0, currentBucket - 1})

\* Lines 106-117.
newBucketOf(currentBucket, difficulty) ==
    CASE difficulty = "Wrong" -> 0
      [] difficulty = "Easy"  -> IF currentBucket = 5 THEN currentBucket ELSE currentBucket + 1
      [] difficulty = "Hard"  -> Max({0, currentBucket - 1})

\* Lines 92-121.  Returns the returned Map and the heap as the call leaves it.
update(bucketsArg, h, card, difficulty) ==
    LET newMap0 == bucketsArg
        idx     == FindEntry(newMap0, h, card)
    IN  IF idx = 0
        THEN [newMap |-> newMap0, heap |-> h]
        ELSE
          LET currentBucket == newMap0[idx].bucket
              cardsRef      == newMap0[idx].ref
              h1      == [h EXCEPT ![cardsRef] = @ \ {card}]
              newMap1 == IF h1[cardsRef] = {} THEN MapDelete(newMap0, currentBucket) ELSE newMap0
              newBucket == newBucketOf(currentBucket, difficulty)
              fresh   == Len(h1) + 1
              h2      == IF MapHas(newMap1, newBucket) THEN h1 ELSE Append(h1, {})
              newMap2 == IF MapHas(newMap1, newBucket) THEN newMap1
                         ELSE MapSet(newMap1, newBucket, fresh)
              destRef == MapGet(newMap2, newBucket)
              h3      == [h2 EXCEPT ![destRef] = @ \cup {card}]
          IN  [newMap |-> newMap2, heap |-> h3]

\* ----------------------------------------------------------------- Init
NoBucket == -1

Perms(S) == {p \in [1..Cardinality(S) -> S] : \A i, j \in 1..Cardinality(S) : p[i] = p[j] => i = j}

\* Every valid sparse mapping over Cards with keys in 0..top, in every
\* insertion order: no empty Set, no card in two buckets, no shared Set.
InitStore(top) ==
    \E a \in [Cards -> (0..top) \cup {NoBucket}] :
      \E ord \in Perms({a[c] : c \in Cards} \ {NoBucket}) :
        /\ buckets = [i \in 1..Len(ord) |-> [bucket |-> ord[i], ref |-> i]]
        /\ heap = [i \in 1..Len(ord) |-> {c \in Cards : a[c] = ord[i]}]

NoCall == [fn |-> "none"]

Init ==
    /\ InitStore(MaxBucket)
    /\ dense = <<>>
    /\ call = NoCall
    /\ steps = 0

\* The caller practises a card and keeps the returned mapping as the new
\* authoritative state.
Update(card, difficulty) ==
    /\ steps < MaxSteps
    /\ LET r == update(buckets, heap, card, difficulty)
       IN  /\ heap' = r.heap
           /\ buckets' = r.newMap
           /\ call' = [fn |-> "update", arg |-> buckets, pre |-> heap,
                       card |-> card, difficulty |-> difficulty, ret |-> r.newMap]
    /\ steps' = steps + 1
    /\ UNCHANGED dense

Next == \E card \in Cards, difficulty \in Difficulties : Update(card, difficulty)

Spec == Init /\ [][Next]_vars

\* The same session started from a mapping whose cards all sit in buckets
\* 0..retiredBucket.
InitLeitner ==
    /\ InitStore(retiredBucket)
    /\ dense = <<>>
    /\ call = NoCall
    /\ steps = 0

SpecLeitner == InitLeitner /\ [][Next]_vars

\* --------------------------------------------------------- toBucketSets
\* Lines 25-27: the loop pushing one Set per index i..maxBucket; each pushed
\* Set is a fresh copy, so the array holds set values.
RECURSIVE toBucketSetsLoop(_, _, _, _, _)
toBucketSetsLoop(m, h, i, maxBucket, result) ==
    IF ~(i <= maxBucket) THEN result
    ELSE toBucketSetsLoop(m, h, i + 1, maxBucket,
             Append(result, IF MapHas(m, i) THEN h[MapGet(m, i)] ELSE {}))

toBucketSetsFromOne(m, h) ==
    IF Len(m) = 0 THEN <<>>
    ELSE toBucketSetsLoop(m, h, 1, Max(MapKeys(m)), <<>>)

\* Lines 21-29.
toBucketSets(m, h) ==
    IF Len(m) = 0 THEN <<>>
    ELSE toBucketSetsLoop(m, h, 0, Max(MapKeys(m)), <<>>)

\* ------------------------------------------------------- getBucketRange
RECURSIVE nonEmptyIndicesAll(_, _, _)
nonEmptyIndicesAll(bs, index, nonEmpty) ==
    IF index >= Len(bs) THEN nonEmpty
    ELSE nonEmptyIndicesAll(bs, index + 1,
             IF Cardinality(bs[index + 1]) >= 0 THEN Append(nonEmpty, index) ELSE nonEmpty)

\* Lines 42-45: indices of the non-empty sets, in array order.
RECURSIVE nonEmptyIndices(_, _, _)
nonEmptyIndices(bs, index, nonEmpty) ==
    IF index >= Len(bs) THEN nonEmpty
    ELSE nonEmptyIndices(bs, index + 1,
             IF Cardinality(bs[index + 1]) > 0 THEN Append(nonEmpty, index) ELSE nonEmpty)

SeqRange(q) == {q[i] : i \in 1..Len(q)}

\* Lines 39-51.  [defined |-> FALSE] stands for undefined.
getBucketRange(bs) ==
    LET nonEmpty == nonEmptyIndices(bs, 0, <<>>)
    IN  IF Len(nonEmpty) = 0 THEN [defined |-> FALSE]
        ELSE [defined |-> TRUE,
              minBucket |-> Min(SeqRange(nonEmpty)),
              maxBucket |-> Max(SeqRange(nonEmpty))]

\* ------------------------------------------------------------- practice
RECURSIVE Pow2(_)
Pow2(i) == IF i = 0 THEN 1 ELSE 2 * Pow2(i - 1)

RECURSIVE practiceLoopNoRetired(_, _, _, _)
practiceLoopNoRetired(bs, day, i, result) ==
    IF ~(i < Len(bs)) THEN result
    ELSE IF day % Pow2(i) = 0
         THEN practiceLoopNoRetired(bs, day, i + 1, result \cup bs[i + 1])
         ELSE practiceLoopNoRetired(bs, day, i + 1, result)

\* Lines 68-74.
RECURSIVE practiceLoop(_, _, _, _)
practiceLoop(bs, day, i, result) ==
    IF ~(i < Len(bs)) THEN result
    ELSE IF i = retiredBucket THEN practiceLoop(bs, day, i + 1, result)
    ELSE LET interval == Pow2(i)
         IN  IF day % interval = 0
             THEN practiceLoop(bs, day, i + 1, result \cup bs[i + 1])
             ELSE practiceLoop(bs, day, i + 1, result)

\* Lines 62-76.
practice(bs, day) == practiceLoop(bs, day, 0, {})

\* ------------------------------------------------------ computeProgress
RECURSIVE SumOver(_, _)
SumOver(f, K) ==
    IF K = {} THEN 0
    ELSE LET k == CHOOSE x \in K : TRUE
         IN  f[k] + SumOver(f, K \ {k})

RECURSIVE SumSeq(_)
SumSeq(q) == IF Len(q) = 0 THEN 0 ELSE q[1] + SumSeq(Tail(q))

RECURSIVE Gcd(_, _)
Gcd(a, b) == IF b = 0 THEN a ELSE Gcd(b, a % b)

\* The number n / d (d > 0) in lowest terms: equal numbers, equal values.
Ratio(n, d) == LET g == Gcd(n, d) IN [num |-> n \div g, den |-> d \div g]

\* Line 151.
totalOf(m, h) == SumOver([i \in 1..Len(m) |-> Cardinality(h[m[i].ref])], 1..Len(m))

\* Lines 152-156.
RECURSIVE bucketCountsLoop(_, _, _, _, _)
bucketCountsLoop(m, h, i, maxBucket, bucketCounts) ==
    IF ~(i <= maxBucket) THEN bucketCounts
    ELSE bucketCountsLoop(m, h, i + 1, maxBucket,
             Append(bucketCounts, IF MapHas(m, i) THEN Cardinality(h[MapGet(m, i)]) ELSE 0))

RECURSIVE practiceCountsDistinct(_, _)
practiceCountsDistinct(history, counts) ==
    IF Len(history) = 0 THEN counts
    ELSE practiceCountsDistinct(Tail(history),
             [x \in DOMAIN counts \cup {history[1].card} |-> 1])

\* Lines 157-160: the Map from card to its number of history entries.
RECURSIVE practiceCountsOf(_, _)
practiceCountsOf(history, counts) ==
    IF Len(history) = 0 THEN counts
    ELSE LET c == history[1].card
             n == IF c \in DOMAIN counts THEN counts[c] ELSE 0
         IN  practiceCountsOf(Tail(history),
                 [x \in DOMAIN counts \cup {c} |-> IF x = c THEN n + 1 ELSE counts[x]])

EmptyCounts == [x \in {} |-> 0]

emptyHistoryCheckNever(m, h, history) == [threw |-> FALSE]

\* Line 150.
emptyHistoryCheck(m, h, history) ==
    IF Len(history) = 0
    THEN [threw |-> TRUE, message |-> "History must not be empty"]
    ELSE [threw |-> FALSE]

\* Lines 148-164.  averagePractices is the exact quotient.
computeProgress(m, h, history) ==
    IF emptyHistoryCheck(m, h, history).threw
    THEN emptyHistoryCheck(m, h, history)
    ELSE
      LET total == totalOf(m, h)
          maxBucket == Max(MapKeys(m) \cup {0})
          bucketCounts == bucketCountsLoop(m, h, 0, maxBucket, <<>>)
          practiceCounts == practiceCountsOf(history, EmptyCounts)
          totalPractices == SumOver(practiceCounts, DOMAIN practiceCounts)
          average == IF total = 0 THEN Ratio(0, 1) ELSE Ratio(totalPractices, total)
      IN  [threw |-> FALSE, total |-> total, buckets |-> bucketCounts,
           averagePractices |-> average]

\* ------------------------------------------- views of the bucket store
\* History entries: computeProgress reads only the card of an entry.
Histories == UNION {[1..n -> [card : Cards]] : n \in 0..MaxHist}

\* A behaviour of the view specifications is one call on the drawn input:
\* the functions keep nothing between calls.
Idle == call = NoCall

ToBucketSets ==
    /\ Idle
    /\ dense' = toBucketSets(buckets, heap)
    /\ call' = [fn |-> "toBucketSets", result |-> toBucketSets(buckets, heap)]
    /\ UNCHANGED <<heap, buckets, steps>>

ComputeProgress(history) ==
    /\ Idle
    /\ call' = [fn |-> "computeProgress", history |-> history,
                result |-> computeProgress(buckets, heap, history)]
    /\ UNCHANGED <<heap, buckets, dense, steps>>

NextViews ==
    \/ ToBucketSets
    \/ \E history \in Histories : ComputeProgress(history)

SpecViews == Init /\ [][NextViews]_vars

\* ------------------------------------------------ dense bucket arrays
\* Every dense array of 0..MaxLen sets with no card in two buckets.
InitDense ==
    /\ \E n \in 0..MaxLen :
         \E a \in [Cards -> (0..(n - 1)) \cup {NoBucket}] :
           dense = [j \in 1..n |-> {c \in Cards : a[c] = j - 1}]
    /\ heap = <<>>
    /\ buckets = <<>>
    /\ call = NoCall
    /\ steps = 0

GetBucketRange ==
    /\ Idle
    /\ call' = [fn |-> "getBucketRange", arg |-> dense, result |-> getBucketRange(dense)]
    /\ UNCHANGED <<heap, buckets, dense, steps>>

Practice(day) ==
    /\ Idle
    /\ call' = [fn |-> "practice", arg |-> dense, day |-> day, result |-> practice(dense, day)]
    /\ UNCHANGED <<heap, buckets, dense, steps>>

NextDense ==
    \/ GetBucketRange
    \/ \E day \in 0..MaxDay : Practice(day)

SpecDense == InitDense /\ [][NextDense]_vars

\* ------------------------------------------------- vocabulary of claims
\* Buckets of the abstract mapping f (bucket -> set of cards) that hold card.
BucketsHolding(f, card) == {k \in DOMAIN f : card \in f[k]}

ValidMapping(f) ==
    /\ \A k \in DOMAIN f : f[k] # {}
    /\ \A c \in Cards : Cardinality(BucketsHolding(f, c)) <= 1

RECURSIVE SumSizes(_, _)
SumSizes(f, K) ==
    IF K = {} THEN 0
    ELSE LET k == CHOOSE x \in K : TRUE
         IN  Cardinality(f[k]) + SumSizes(f, K \ {k})

TotalCards(f) == SumSizes(f, DOMAIN f)

IsUpdate == call.fn = "update"

ArgBefore == Contents(call.arg, call.pre)

ArgAfter == Contents(call.arg, heap)

Returned == Contents(call.ret, heap)

CardWasBucketed == IsUpdate /\ BucketsHolding(ArgBefore, call.card) # {}

OldBucket == CHOOSE k \in BucketsHolding(ArgBefore, call.card) : TRUE

\* ----------------------------------------------------------------- C1
\* C1: update never mutates the caller's original mapping: after the call
\* the mapping that was passed in has the same bucket keys and every one of
\* its sets holds exactly the cards it held before the call.
C1_ArgumentNotMutated == IsUpdate => ArgAfter = ArgBefore

\* ----------------------------------------------------------------- C2
\* C2: after update on a valid mapping that contains the card, the returned
\* mapping has no bucket key mapping to an empty set and the card is in
\* exactly one bucket of it.
C2_NoEmptySetCardOnce ==
    (CardWasBucketed /\ ValidMapping(ArgBefore)) =>
        /\ \A k \in DOMAIN Returned : Returned[k] # {}
        /\ Cardinality(BucketsHolding(Returned, call.card)) = 1
        /\ \A i, j \in 1..Len(call.ret) : call.ret[i].bucket = call.ret[j].bucket => i = j

\* The card was alone in bucket 0 and was answered Hard: source = destination.
C2_Witness ==
    /\ CardWasBucketed
    /\ call.difficulty = "Hard"
    /\ OldBucket = 0
    /\ ArgBefore[0] = {call.card}
    /\ Returned[0] = {call.card}

\* ----------------------------------------------------------------- C3
\* C3: a card in bucket b goes to bucket 0 on Wrong, to b+1 on Easy when b
\* is not 5, stays in 5 on Easy when b is 5, and goes to max(0, b-1) on Hard.
C3_Destination ==
    CardWasBucketed =>
        LET b == OldBucket
            d == call.difficulty
            expected == IF d = "Wrong" THEN 0
                        ELSE IF d = "Easy" THEN (IF b = 5 THEN 5 ELSE b + 1)
                        ELSE (IF b = 0 THEN 0 ELSE b - 1)
        IN  BucketsHolding(Returned, call.card) = {expected}

\* A card of the retired bucket answered Hard is now in bucket 4.
C3_Witness ==
    /\ CardWasBucketed
    /\ call.difficulty = "Hard"
    /\ OldBucket = 5
    /\ call.card \in Returned[4]

\* ----------------------------------------------------------------- C4
\* C4: when the card is in no bucket, update returns a mapping with the same
\* bucket keys and the same cards in each bucket, for every difficulty; the
\* card is not inserted anywhere.
C4_UnbucketedIsNoOp ==
    (IsUpdate /\ BucketsHolding(ArgBefore, call.card) = {}) =>
        /\ Returned = ArgBefore
        /\ BucketsHolding(Returned, call.card) = {}

\* An unbucketed card was practised against a non-empty mapping.
C4_Witness ==
    /\ IsUpdate
    /\ BucketsHolding(ArgBefore, call.card) = {}
    /\ DOMAIN ArgBefore # {}
    /\ Returned = ArgBefore

\* ---------------------------------------------------------------- C10
Store == Contents(buckets, heap)

Bucketed(f) == UNION {f[k] : k \in DOMAIN f}

\* C10: from a valid mapping with all cards in buckets 0..5, every update
\* keeps every bucketed card in exactly one bucket within 0..5, loses and
\* duplicates no card, and keeps the number of bucketed cards.
C10_CardsConserved ==
    [][ /\ ValidMapping(Store')
        /\ DOMAIN Store' \subseteq 0..5
        /\ Bucketed(Store') = Bucketed(Store)
        /\ TotalCards(Store') = TotalCards(Store) ]_vars

\* After a full run of updates the last one answered Easy on a retired card.
C10_Witness ==
    /\ steps = MaxSteps
    /\ CardWasBucketed
    /\ call.difficulty = "Easy"
    /\ OldBucket = 5
    /\ call.card \in Store[5]

\* ----------------------------------------------------------------- C5
DueIndices(bs, day) == {i \in 0..(Len(bs) - 1) : i # 5 /\ day % (2 ^ i) = 0}

\* C5: practice returns exactly the union of the buckets at indices i # 5
\* with day mod 2^i = 0: bucket 0 every day, every bucket but 5 on day 0,
\* and never a card of the retired bucket 5.
C5_DueSet ==
    call.fn = "practice" =>
        LET bs == call.arg
            day == call.day
        IN  /\ call.result = UNION {bs[i + 1] : i \in DueIndices(bs, day)}
            /\ Len(bs) >= 1 => bs[1] \subseteq call.result
            /\ day = 0 => \A i \in 0..(Len(bs) - 1) : i # 5 => bs[i + 1] \subseteq call.result
            /\ Len(bs) >= 6 => bs[6] \cap call.result = {}

\* A seven-bucket array with a retired card, on a day that is a multiple of
\* 32: something is due, the retired card is not.
C5_Witness ==
    /\ call.fn = "practice"
    /\ Len(call.arg) = 7
    /\ call.arg[6] # {}
    /\ call.day = 32
    /\ call.result # {}

\* ----------------------------------------------------------------- C6
\* C6: toBucketSets returns the empty sequence for an empty mapping;
\* otherwise a sequence of length (largest key) + 1 whose entry i holds the
\* cards of key i, or the empty set when i is no key; the set sizes of the
\* result sum to the set sizes of the mapping.
C6_DenseView ==
    call.fn = "toBucketSets" =>
        LET r == call.result
        IN  /\ DOMAIN Store = {} => r = <<>>
            /\ DOMAIN Store # {} =>
                  /\ Len(r) = Max(DOMAIN Store) + 1
                  /\ \A i \in 0..(Len(r) - 1) :
                        r[i + 1] = IF i \in DOMAIN Store THEN Store[i] ELSE {}
            /\ SumSeq([j \in 1..Len(r) |-> Cardinality(r[j])]) = TotalCards(Store)

\* A mapping with a gap below its largest key was converted.
C6_Witness ==
    /\ call.fn = "toBucketSets"
    /\ Len(call.result) >= 3
    /\ \E j \in 1..Len(call.result) : call.result[j] = {}
    /\ call.result[1] # {}

\* ----------------------------------------------------------------- C7
\* C7: computeProgress fails with the empty-history error exactly when the
\* history has no entries, whatever the mapping; otherwise it returns
\* statistics.
C7_EmptyHistoryError ==
    call.fn = "computeProgress" =>
        /\ call.result.threw <=> Len(call.history) = 0
        /\ call.result.threw => call.result.message = "History must not be empty"
        /\ ~call.result.threw =>
              DOMAIN call.result = {"threw", "total", "buckets", "averagePractices"}

\* The error was raised for a non-empty mapping.
C7_Witness ==
    /\ call.fn = "computeProgress"
    /\ call.history = <<>>
    /\ call.result.threw
    /\ DOMAIN Store # {}

\* ----------------------------------------------------------------- C8
\* Entries of the history per distinct card, summed over the distinct cards.
PracticesPerCardSummed(history) ==
    LET distinct == {history[i].card : i \in 1..Len(history)}
        per == [c \in distinct |-> Cardinality({i \in 1..Len(history) : history[i].card = c})]
    IN  SumOver(per, distinct)

\* C8: for a non-empty history computeProgress returns total = the sum of
\* the set sizes; one bucket count per index 0..(largest key), or <<0>> for
\* the empty mapping, entry i counting the cards of bucket i and the entries
\* summing to total; and averagePractices = history entries / total, or 0
\* when total is 0.
C8_Statistics ==
    (call.fn = "computeProgress" /\ Len(call.history) > 0) =>
        LET r == call.result
        IN  /\ r.total = TotalCards(Store)
            /\ Len(r.buckets) = IF DOMAIN Store = {} THEN 1 ELSE Max(DOMAIN Store) + 1
            /\ DOMAIN Store = {} => r.buckets = <<0>>
            /\ \A i \in 0..(Len(r.buckets) - 1) :
                  r.buckets[i + 1] = IF i \in DOMAIN Store THEN Cardinality(Store[i]) ELSE 0
            /\ SumSeq(r.buckets) = r.total
            /\ r.averagePractices =
                  IF r.total = 0 THEN Ratio(0, 1)
                  ELSE Ratio(PracticesPerCardSummed(call.history), r.total)

\* Three practices, one card practised twice, two cards bucketed: 3/2.
C8_Witness ==
    /\ call.fn = "computeProgress"
    /\ Len(call.history) = 3
    /\ call.history[1].card = call.history[2].card
    /\ call.history[3].card # call.history[1].card
    /\ call.result.total = 2
    /\ call.result.averagePractices = [num |-> 3, den |-> 2]

\* ----------------------------------------------------------------- C9
Occupied(bs) == {i \in 0..(Len(bs) - 1) : bs[i + 1] # {}}

\* C9: getBucketRange returns undefined when no set of the array holds a
\* card; otherwise minBucket and maxBucket are the smallest and the largest
\* index of a non-empty set; the array is left as it was.
C9_BucketRange ==
    call.fn = "getBucketRange" =>
        LET r == call.result
        IN  /\ Occupied(call.arg) = {} => ~r.defined
            /\ Occupied(call.arg) # {} =>
                  /\ r.defined
                  /\ r.minBucket \in Occupied(call.arg)
                  /\ r.maxBucket \in Occupied(call.arg)
                  /\ \A i \in Occupied(call.arg) : r.minBucket <= i /\ i <= r.maxBucket
                  /\ r.minBucket <= r.maxBucket
            /\ dense = call.arg

\* Empty sets before, between and after the occupied buckets.
C9_Witness ==
    /\ call.fn = "getBucketRange"
    /\ call.result.defined
    /\ call.result.minBucket > 0
    /\ call.result.maxBucket > call.result.minBucket + 1
    /\ call.result.maxBucket < Len(call.arg) - 1

====
